---- MODULE Spec2Model ----
(***************************************************************************)
(* Model of scripts/media-sync.py: the two retrying HTTP helpers           *)
(* (make_request_with_retry, download_file_with_retry), the disk-space     *)
(* check, and the commands cmd_sync and cmd_refresh that use them.         *)
(*                                                                         *)
(* Every Python call frame is one record variable holding the frame's      *)
(* locals and its position (pc).  The environment (HTTP server, disk,      *)
(* manifests) answers nondeterministically at the step that asks it.       *)
(* Seconds are integers; header values are absent, unparsable text, or an  *)
(* integer.                                                                *)
(***************************************************************************)
EXTENDS Integers, Sequences, FiniteSets, TLC

VARIABLES dl, rq, fs, sy, rf, obs

vars == <<dl, rq, fs, sy, rf, obs>>

(***************************************************************************)
(* Configuration (module level of media-sync.py)                           *)
(***************************************************************************)
SOURCES == <<"elizaos", "hyperfy">>
MAX_RETRY_ATTEMPTS == 8
MAX_RETRY_AFTER_SECONDS == 60
BASE_BACKOFF_SECONDS == 1
MB == 1048576

(***************************************************************************)
(* Bounds of the model                                                     *)
(***************************************************************************)
MaxRetriesArg == 8      \* max_retries arguments explored: 0..MaxRetriesArg
MaxFiles == 2           \* longest manifest "files" list
MaxMinFree == 1         \* --min-free values explored: 1..MaxMinFree (MB)
MaxRefreshFiles == 2    \* longest "files" list of a refresh manifest

(***************************************************************************)
(* Values the environment can produce                                      *)
(***************************************************************************)
Absent == [kind |-> "absent", val |-> 0]
Bad == [kind |-> "bad", val |-> 0]
Num(n) == [kind |-> "num", val |-> n]

\* Retry-After headers of a 429 response
RetryAfterVals == {Absent, Bad} \cup {Num(n) : n \in {-5, 59, 3600}}
\* X-RateLimit-Remaining / X-RateLimit-Reset-After headers of a 2xx response:
\* neither, every Remaining beside a small Reset-After, every Reset-After
\* beside a Remaining of 0
RemainingVals == {Absent, Bad, Num(-1), Num(0), Num(1)}
ResetAfterVals == {Absent, Bad, Num(-5), Num(2), Num(100)}
RateLimitHeaders ==
  {<<Absent, Absent>>} \cup {<<r, Num(2)>> : r \in RemainingVals}
                       \cup {<<Num(0), x>> : x \in ResetAfterVals}
\* status codes urlopen raises as HTTPError
HttpCodes == {403, 404, 408, 429, 500}

Names == {"a", "ab"}
Urls == {"u1", "u2"}
OutputDir == "output"
Dirs == {SOURCES[i] : i \in 1..Len(SOURCES)} \cup {OutputDir}
Paths == Dirs \X Names
NoPath == <<"none", "none">>
\* content of a path: "absent" (no file), "old" (a file from before the
\* run), "empty" (opened for writing, body never received) or the url whose
\* body was written
FreshUrl(key) == "fresh-" \o key      \* the url the API lists for an attachment
ProxyUrl == "proxy"                   \* the proxy_url of a manifest entry

(***************************************************************************)
(* Python built-ins                                                        *)
(***************************************************************************)
\* min(a, b)
Min(a, b) == IF a <= b THEN a ELSE b

\* headers.get(name, default)
HeaderGet(h, default) == IF h.kind = "absent" THEN default ELSE h

\* float(s) / int(s) raise ValueError on text that is no number
Parses(h) == h.kind = "num"

\* time.sleep(d) raises ValueError when d < 0
SleepRaises(d) == d < 0

(***************************************************************************)
(* download_file_with_retry(url, dest, max_retries)                        *)
(***************************************************************************)
DlIdle ==
  [pc |-> "idle", url |-> "none", dest |-> NoPath, max_retries |-> 0,
   attempt |-> 0, sent |-> 0, last |-> "none", code |-> 0, hdr |-> Absent,
   delay |-> 0, ret |-> FALSE]

DlCall(url, dest, max_retries) ==
  [DlIdle EXCEPT !.pc = "run", !.url = url, !.dest = dest,
                 !.max_retries = max_retries]

\* the delay after a 429 without the cap
DownloadRateLimitDelay_uncapped(hdr) ==
  LET retry_after == HeaderGet(hdr, Num(5)) IN
  IF Parses(retry_after) THEN retry_after.val + 1 ELSE MAX_RETRY_AFTER_SECONDS

\* lines 161-165: delay after a 429
DownloadRateLimitDelay(hdr) ==
  LET retry_after == HeaderGet(hdr, Num(5)) IN
  IF Parses(retry_after)
    THEN Min(retry_after.val + 1, MAX_RETRY_AFTER_SECONDS)
    ELSE MAX_RETRY_AFTER_SECONDS

\* a backoff that doubles from the second attempt on only
DownloadBackoff_late(attempt) ==
  (IF attempt = 0 THEN 1 ELSE 2 ^ (attempt - 1)) + BASE_BACKOFF_SECONDS

\* lines 175, 184: delay after a server or network error
DownloadBackoff(attempt) == (2 ^ attempt) + BASE_BACKOFF_SECONDS

\* time.sleep(delay); continue -- or the ValueError of time.sleep escapes
DlSleepContinue(f, last, code, hdr, delay) ==
  [f EXCEPT !.sent = @ + 1, !.last = last, !.code = code, !.hdr = hdr,
            !.delay = delay,
            !.attempt = IF SleepRaises(delay) THEN @ ELSE @ + 1,
            !.pc = IF SleepRaises(delay) THEN "exc" ELSE "run"]

DlReturn(f, last, code, value) ==
  [f EXCEPT !.sent = @ + 1, !.last = last, !.code = code, !.hdr = Absent,
            !.delay = 0, !.pc = "ret", !.ret = value]

DlInLoop == dl.pc = "run" /\ dl.attempt < dl.max_retries

\* lines 152-157: the response arrives, dest is opened 'wb' and written
download_file_with_retry_ok ==
  /\ DlInLoop
  /\ fs' = [fs EXCEPT ![dl.dest] = dl.url]
  /\ dl' = DlReturn(dl, "ok", 200, TRUE)
  /\ UNCHANGED <<rq, sy, rf, obs>>

\* lines 159-181: except HTTPError
DlOnHTTPError(f, code, hdr) ==
  IF code = 429
    THEN DlSleepContinue(f, "429", code, hdr, DownloadRateLimitDelay(hdr))
  ELSE IF code = 404
    THEN DlReturn(f, "fatal", code, FALSE)
  ELSE IF code >= 500 \/ code = 408
    THEN DlSleepContinue(f, "server", code, Absent, DownloadBackoff(f.attempt))
  ELSE DlReturn(f, "fatal", code, FALSE)

download_file_with_retry_HTTPError ==
  /\ DlInLoop
  /\ \E code \in HttpCodes :
       \E hdr \in (IF code = 429 THEN RetryAfterVals ELSE {Absent}) :
         dl' = DlOnHTTPError(dl, code, hdr)
  /\ UNCHANGED <<rq, fs, sy, rf, obs>>

\* lines 183-187: except (URLError, TimeoutError, OSError).  The error comes
\* from urlopen or open (dest untouched) or from resp.read() after dest was
\* opened 'wb' (dest left empty).
download_file_with_retry_NetworkError ==
  /\ DlInLoop
  /\ \E opened \in BOOLEAN :
       fs' = IF opened THEN [fs EXCEPT ![dl.dest] = "empty"] ELSE fs
  /\ dl' = DlSleepContinue(dl, "net", 0, Absent, DownloadBackoff(dl.attempt))
  /\ UNCHANGED <<rq, sy, rf, obs>>

\* lines 189-190: the for loop ran out
download_file_with_retry_exhausted ==
  /\ dl.pc = "run" /\ dl.attempt >= dl.max_retries
  /\ dl' = [dl EXCEPT !.pc = "ret", !.ret = FALSE]
  /\ UNCHANGED <<rq, fs, sy, rf, obs>>

download_file_with_retry ==
  \/ download_file_with_retry_ok
  \/ download_file_with_retry_HTTPError
  \/ download_file_with_retry_NetworkError
  \/ download_file_with_retry_exhausted

(***************************************************************************)
(* make_request_with_retry(url, headers, max_retries)                      *)
(***************************************************************************)
NoError == [type |-> "none", code |-> 0, n |-> 0]
NoWait == [asked |-> FALSE, delay |-> 0, slept |-> FALSE]
\* body of a Discord "messages?around=" answer, as far as cmd_refresh reads
\* it: is the target message in it, and which attachment names it lists
NoBody == [found |-> FALSE, keys |-> {}]
Bodies == {NoBody} \cup [found : {TRUE}, keys : SUBSET Names]

RqIdle ==
  [pc |-> "idle", max_retries |-> 0, attempt |-> 0, sent |-> 0,
   last |-> "none", code |-> 0, hdr |-> Absent, delay |-> 0,
   last_error |-> NoError, raised |-> NoError, data |-> NoBody,
   remaining |-> Absent, reset_after |-> Absent, wait |-> NoWait]

RqCall(max_retries) == [RqIdle EXCEPT !.pc = "run", !.max_retries = max_retries]

\* lines 112-116: delay after a 429
RequestRateLimitDelay(hdr) ==
  LET retry_after == HeaderGet(hdr, Num(5)) IN
  IF Parses(retry_after)
    THEN Min(retry_after.val + 1, MAX_RETRY_AFTER_SECONDS)
    ELSE MAX_RETRY_AFTER_SECONDS

\* lines 124, 135: delay after a server or network error
RequestBackoff(attempt) == (2 ^ attempt) + BASE_BACKOFF_SECONDS

\* the preemptive wait with "int(remaining) < 0" for "<= 0"
RequestPreemptiveWait_strict(remaining, reset_after) ==
  IF remaining.kind # "absent" /\ reset_after.kind # "absent"
     /\ Parses(remaining) /\ remaining.val < 0 /\ Parses(reset_after)
    THEN LET delay == Min(reset_after.val + 1, MAX_RETRY_AFTER_SECONDS) IN
         [asked |-> TRUE, delay |-> delay, slept |-> ~SleepRaises(delay)]
    ELSE [asked |-> FALSE, delay |-> 0, slept |-> FALSE]

\* lines 96-103: the preemptive wait of a successful response.  int(),
\* float() and time.sleep() all raise ValueError inside the try, which is
\* swallowed.
RequestPreemptiveWait(remaining, reset_after) ==
  IF remaining.kind # "absent" /\ reset_after.kind # "absent"
     /\ Parses(remaining) /\ remaining.val <= 0 /\ Parses(reset_after)
    THEN LET delay == Min(reset_after.val + 1, MAX_RETRY_AFTER_SECONDS) IN
         [asked |-> TRUE, delay |-> delay, slept |-> ~SleepRaises(delay)]
    ELSE NoWait

\* last_error = e; time.sleep(delay); continue -- a ValueError of time.sleep
\* escapes the except clause
RqSleepContinue(f, last, code, hdr, delay) ==
  LET e == [type |-> (IF last = "net" THEN "net" ELSE "http"), code |-> code,
            n |-> f.sent + 1] IN
  [f EXCEPT !.sent = @ + 1, !.last = last, !.code = code, !.hdr = hdr,
            !.delay = delay, !.last_error = e,
            !.attempt = IF SleepRaises(delay) THEN @ ELSE @ + 1,
            !.pc = IF SleepRaises(delay) THEN "exc" ELSE "run",
            !.raised = IF SleepRaises(delay)
                         THEN [type |-> "ValueError", code |-> 0, n |-> f.sent + 1]
                         ELSE @]

RqInLoop == rq.pc = "run" /\ rq.attempt < rq.max_retries

\* lines 86-105: a successful response
make_request_with_retry_ok ==
  /\ RqInLoop
  /\ \E h \in RateLimitHeaders, body \in Bodies :
       rq' = [rq EXCEPT !.sent = @ + 1, !.last = "ok", !.code = 200,
                        !.hdr = Absent, !.delay = 0,
                        !.remaining = h[1], !.reset_after = h[2],
                        !.wait = RequestPreemptiveWait(h[1], h[2]),
                        !.data = body, !.pc = "ret"]
  /\ UNCHANGED <<dl, fs, sy, rf, obs>>

\* lines 107-130: except HTTPError
RqOnHTTPError(f, code, hdr) ==
  IF code = 429
    THEN RqSleepContinue(f, "429", code, hdr, RequestRateLimitDelay(hdr))
  ELSE IF code >= 500 \/ code = 408
    THEN RqSleepContinue(f, "server", code, Absent, RequestBackoff(f.attempt))
  ELSE LET e == [type |-> "http", code |-> code, n |-> f.sent + 1] IN
       [f EXCEPT !.sent = @ + 1, !.last = "fatal", !.code = code,
                 !.hdr = Absent, !.delay = 0, !.last_error = e,
                 !.pc = "exc", !.raised = e]

make_request_with_retry_HTTPError ==
  /\ RqInLoop
  /\ \E code \in HttpCodes :
       \E hdr \in (IF code = 429 THEN RetryAfterVals ELSE {Absent}) :
         rq' = RqOnHTTPError(rq, code, hdr)
  /\ UNCHANGED <<dl, fs, sy, rf, obs>>

\* lines 132-138: except (URLError, TimeoutError, OSError)
make_request_with_retry_NetworkError ==
  /\ RqInLoop
  /\ rq' = RqSleepContinue(rq, "net", 0, Absent, RequestBackoff(rq.attempt))
  /\ UNCHANGED <<dl, fs, sy, rf, obs>>

\* lines 140-141: raise last_error or Exception("Max retries ... exhausted")
make_request_with_retry_exhausted ==
  /\ rq.pc = "run" /\ rq.attempt >= rq.max_retries
  /\ rq' = [rq EXCEPT !.pc = "exc",
                      !.raised = IF rq.last_error # NoError THEN rq.last_error
                                 ELSE [type |-> "Exception", code |-> 0, n |-> 0]]
  /\ UNCHANGED <<dl, fs, sy, rf, obs>>

make_request_with_retry ==
  \/ make_request_with_retry_ok
  \/ make_request_with_retry_HTTPError
  \/ make_request_with_retry_NetworkError
  \/ make_request_with_retry_exhausted

(***************************************************************************)
(* Disk space                                                              *)
(***************************************************************************)
\* free bytes shutil.disk_usage can report at the moment it is asked
FreeVals == {m * MB - 1 : m \in 1..MaxMinFree} \cup {m * MB : m \in 1..MaxMinFree}

\* the minimum taken for kilobytes
check_disk_space_kb(free, min_free_mb) ==
  [ok |-> free >= min_free_mb * 1024, free |-> free]

\* check_disk_space(path, min_free_mb), given what get_disk_space reads
check_disk_space(free, min_free_mb) ==
  LET min_free_bytes == min_free_mb * 1024 * 1024 IN
  [ok |-> free >= min_free_bytes, free |-> free]

(***************************************************************************)
(* Observations: what an outside observer of a run records (requests       *)
(* seen by the servers, answers of the disk, the files before the run).    *)
(***************************************************************************)
NoCheck == [si |-> 0, fi |-> 0, free |-> 0]

ObsInit(fs0) ==
  [fs0 |-> fs0, free0 |-> -1, fetches |-> 0, dlCalls |-> 0, dlFalse |-> 0,
   low |-> FALSE, check |-> NoCheck, absentReached |-> 0, api |-> 0,
   loaded |-> -1, matches |-> -1]

(***************************************************************************)
(* cmd_sync(args)                                                          *)
(***************************************************************************)
Entries == [url : Urls, unique_name : Names]
SeqsUpTo(S, n) == UNION {[1..k -> S] : k \in 0..n}
Manifests == SeqsUpTo(Entries, MaxFiles)

Stats0 == [downloaded |-> 0, skipped |-> 0, failed |-> 0, disk_stopped |-> FALSE]

SyIdle ==
  [pc |-> "idle", dry_run |-> FALSE, min_free |-> 0, stats |-> Stats0,
   files_to_download |-> 0, si |-> 0, files |-> <<>>, fi |-> 0,
   ok |-> FALSE, free_bytes |-> 0, ret |-> -1]

SyCall(dry_run, min_free) ==
  [SyIdle EXCEPT !.pc = "start", !.dry_run = dry_run, !.min_free = min_free]

\* a destination named after the url instead of unique_name
SyncDest_by_url(source, entry) ==
  <<source, IF entry.url = "u1" THEN "a" ELSE "ab">>

\* line 263: dest = INSTALL_DIR / f"{source}-media" / unique_name
SyncDest(source, entry) == <<source, entry.unique_name>>

\* dest.exists()
Exists(f, path) == f[path] # "absent"

\* lines 231-237: initial disk space check
cmd_sync_start ==
  /\ sy.pc = "start"
  /\ \E free \in FreeVals :
       LET c == check_disk_space(free, sy.min_free) IN
       /\ sy' = IF ~c.ok /\ ~sy.dry_run
                  THEN [sy EXCEPT !.ok = c.ok, !.free_bytes = c.free,
                                  !.ret = 1, !.pc = "done"]
                  ELSE [sy EXCEPT !.ok = c.ok, !.free_bytes = c.free,
                                  !.si = 1, !.pc = "source"]
       /\ obs' = [obs EXCEPT !.free0 = free]
  /\ UNCHANGED <<dl, rq, fs, rf>>

SyAtSource == sy.pc = "source" /\ sy.si <= Len(SOURCES)

\* lines 245-254: the manifest of the source is fetched and parsed
cmd_sync_manifest ==
  /\ SyAtSource
  /\ \E files \in Manifests :
       sy' = [sy EXCEPT !.files = files, !.fi = 1, !.pc = "entry"]
  /\ obs' = [obs EXCEPT !.fetches = @ + 1]
  /\ UNCHANGED <<dl, rq, fs, rf>>

\* lines 249-251: except (URLError, HTTPError): continue
cmd_sync_no_manifest ==
  /\ SyAtSource
  /\ sy' = [sy EXCEPT !.si = @ + 1]
  /\ obs' = [obs EXCEPT !.fetches = @ + 1]
  /\ UNCHANGED <<dl, rq, fs, rf>>

\* line 248: json.loads raises ValueError on a body that is not JSON; no
\* except clause takes it
cmd_sync_manifest_invalid ==
  /\ SyAtSource
  /\ sy' = [sy EXCEPT !.pc = "exc"]
  /\ obs' = [obs EXCEPT !.fetches = @ + 1]
  /\ UNCHANGED <<dl, rq, fs, rf>>

\* the iteration without its "skip if already exists"
SyOnEntry_noskip(f, exists, c) ==
  IF f.dry_run
    THEN [f EXCEPT !.files_to_download = @ + 1, !.fi = @ + 1]
  ELSE IF ~c.ok
    THEN [f EXCEPT !.ok = c.ok, !.free_bytes = c.free,
                   !.stats.disk_stopped = TRUE, !.pc = "summary"]
  ELSE [f EXCEPT !.ok = c.ok, !.free_bytes = c.free, !.pc = "download"]

\* the iteration with a disk check that logs but does not stop
SyOnEntry_nostop(f, exists, c) ==
  IF exists
    THEN [f EXCEPT !.stats.skipped = @ + 1, !.fi = @ + 1]
  ELSE IF f.dry_run
    THEN [f EXCEPT !.files_to_download = @ + 1, !.fi = @ + 1]
  ELSE [f EXCEPT !.ok = c.ok, !.free_bytes = c.free, !.pc = "download"]

\* the iteration without its --dry-run branch
SyOnEntry_nodry(f, exists, c) ==
  IF exists
    THEN [f EXCEPT !.stats.skipped = @ + 1, !.fi = @ + 1]
  ELSE IF ~c.ok
    THEN [f EXCEPT !.ok = c.ok, !.free_bytes = c.free,
                   !.stats.disk_stopped = TRUE, !.pc = "summary"]
  ELSE [f EXCEPT !.ok = c.ok, !.free_bytes = c.free, !.pc = "download"]

\* lines 257-287: one iteration of "for entry in files", up to the call of
\* download_file_with_retry
SyOnEntry(f, exists, c) ==
  IF exists
    THEN [f EXCEPT !.stats.skipped = @ + 1, !.fi = @ + 1]
  ELSE IF f.dry_run
    THEN [f EXCEPT !.files_to_download = @ + 1, !.fi = @ + 1]
  ELSE IF ~c.ok
    THEN [f EXCEPT !.ok = c.ok, !.free_bytes = c.free,
                   !.stats.disk_stopped = TRUE, !.pc = "summary"]
  ELSE [f EXCEPT !.ok = c.ok, !.free_bytes = c.free, !.pc = "download"]

cmd_sync_entry ==
  /\ sy.pc = "entry" /\ sy.fi <= Len(sy.files)
  /\ LET entry == sy.files[sy.fi]
         dest == SyncDest(SOURCES[sy.si], entry)
         exists == Exists(fs, dest)
         checks == ~exists /\ ~sy.dry_run
     IN \E free \in (IF checks THEN FreeVals ELSE {sy.free_bytes}) :
          LET c == check_disk_space(free, sy.min_free) IN
          /\ sy' = SyOnEntry(sy, exists, c)
          /\ dl' = IF sy'.pc = "download"
                     THEN DlCall(entry.url, dest, MAX_RETRY_ATTEMPTS)
                     ELSE dl
          /\ obs' = [obs EXCEPT
                       !.absentReached = IF exists THEN @ ELSE @ + 1,
                       !.check = IF checks
                                   THEN [si |-> sy.si, fi |-> sy.fi, free |-> free]
                                   ELSE @,
                       !.low = @ \/ (checks /\ free < sy.min_free * MB),
                       !.dlCalls = IF sy'.pc = "download" THEN @ + 1 ELSE @]
  /\ UNCHANGED <<rq, fs, rf>>

\* lines 287-292: download_file_with_retry returned
cmd_sync_downloaded ==
  /\ sy.pc = "download" /\ dl.pc = "ret"
  /\ sy' = IF dl.ret
             THEN [sy EXCEPT !.stats.downloaded = @ + 1, !.fi = @ + 1, !.pc = "entry"]
             ELSE [sy EXCEPT !.stats.failed = @ + 1, !.fi = @ + 1, !.pc = "entry"]
  /\ obs' = [obs EXCEPT !.dlFalse = IF dl.ret THEN @ ELSE @ + 1]
  /\ dl' = DlIdle
  /\ UNCHANGED <<rq, fs, rf>>

\* line 287: an exception of download_file_with_retry passes through cmd_sync
cmd_sync_download_raised ==
  /\ sy.pc = "download" /\ dl.pc = "exc"
  /\ sy' = [sy EXCEPT !.pc = "exc"]
  /\ dl' = DlIdle
  /\ UNCHANGED <<rq, fs, rf, obs>>

\* lines 294-295: end of the inner loop
cmd_sync_next_source ==
  /\ sy.pc = "entry" /\ sy.fi > Len(sy.files)
  /\ sy' = IF sy.stats.disk_stopped
             THEN [sy EXCEPT !.pc = "summary"]
             ELSE [sy EXCEPT !.si = @ + 1, !.pc = "source"]
  /\ UNCHANGED <<dl, rq, fs, rf, obs>>

\* an exit code that forgets the failed downloads
SyExitCode_nofail(stats) == IF stats.disk_stopped THEN 2 ELSE 0

\* lines 313-315
SyExitCode(stats) ==
  IF stats.disk_stopped THEN 2
  ELSE IF stats.failed = 0 THEN 0 ELSE 1

\* lines 297-315: summary and return
cmd_sync_return ==
  /\ \/ sy.pc = "summary"
     \/ sy.pc = "source" /\ sy.si > Len(SOURCES)
  /\ sy' = [sy EXCEPT !.ret = SyExitCode(sy.stats), !.pc = "done"]
  /\ UNCHANGED <<dl, rq, fs, rf, obs>>

cmd_sync ==
  \/ cmd_sync_start
  \/ cmd_sync_manifest
  \/ cmd_sync_no_manifest
  \/ cmd_sync_manifest_invalid
  \/ cmd_sync_entry
  \/ cmd_sync_downloaded
  \/ cmd_sync_download_raised
  \/ cmd_sync_next_source
  \/ cmd_sync_return

(***************************************************************************)
(* cmd_refresh(args)                                                       *)
(***************************************************************************)
Users == {"u1", "u2"}
Types == {"attachment", "sticker"}
Msgs == {"m1", "m2"}
\* entries of a local manifest; unique_name is left out of them, so that
\* f.get("unique_name", f["filename"]) is the filename; message_id stands
\* for the pair (channel_id, message_id)
RefreshEntries ==
  [filename : Names, user_id : Users, media_type : Types, message_id : Msgs,
   proxy_url : BOOLEAN]
RefreshManifests == SeqsUpTo(RefreshEntries, MaxRefreshFiles)

RfStats0 == [downloaded |-> 0, failed |-> 0, skipped |-> 0]

RfIdle ==
  [pc |-> "idle", token |-> "unset", manifest_exists |-> FALSE,
   user |-> "none", type |-> "none", dry_run |-> FALSE, force |-> FALSE,
   made_dir |-> FALSE, messages |-> <<>>, mi |-> 0, fresh_urls |-> {},
   fj |-> 0, stats |-> RfStats0, ret |-> -1]

RfCall(token, manifest_exists, user, type, dry_run, force) ==
  [RfIdle EXCEPT !.pc = "start", !.token = token,
                 !.manifest_exists = manifest_exists, !.user = user,
                 !.type = type, !.dry_run = dry_run, !.force = force]

\* a test "token is None" in place of "not token"
Falsy_unset_only(token) == token = "unset"

\* "if not token": unset and empty are both false
Falsy(token) == token \in {"unset", ""}

\* lines 488-496: the two filters
RfFilter(files, user, type) ==
  LET by_user == IF user # "none"
                   THEN SelectSeq(files, LAMBDA f : f.user_id = user)
                   ELSE files
  IN IF type # "none"
       THEN SelectSeq(by_user, LAMBDA f : f.media_type = type)
       ELSE by_user

\* lines 503-508: messages = {key: [files]}, in order of first appearance.
\* Of each file the fields read later are kept.
RECURSIVE RfKeys(_)
RfKeys(files) ==
  IF files = <<>> THEN <<>>
  ELSE LET k == files[1].message_id IN
       <<k>> \o RfKeys(SelectSeq(Tail(files), LAMBDA f : f.message_id # k))

RfProject(files) ==
  [i \in 1..Len(files) |->
     [filename |-> files[i].filename, proxy_url |-> files[i].proxy_url]]

RfGroup(files) ==
  LET keys == RfKeys(files) IN
  [i \in 1..Len(keys) |->
     [key |-> keys[i],
      files |-> RfProject(SelectSeq(files, LAMBDA f : f.message_id = keys[i]))]]

\* line 584: dest = output_dir / f.get("unique_name", f["filename"])
RefreshDest(f) == <<OutputDir, f.filename>>

\* lines 469-512: token and manifest checks, load, filter, group.  args.user
\* and args.type are not read after the filters; a run that goes on drops
\* them from the frame.
RfOnStart(f, manifest) ==
  IF Falsy(f.token) THEN [f EXCEPT !.ret = 1, !.pc = "done"]
  ELSE IF ~f.manifest_exists THEN [f EXCEPT !.ret = 1, !.pc = "done"]
  ELSE LET files == RfFilter(manifest, f.user, f.type) IN
       IF files = <<>>
         THEN [f EXCEPT !.made_dir = TRUE, !.ret = 0, !.pc = "done"]
         ELSE [f EXCEPT !.made_dir = TRUE, !.messages = RfGroup(files),
                        !.user = "none", !.type = "none",
                        !.mi = 1, !.pc = "message"]

\* the entries of a manifest that pass the --user / --type options
Matching(manifest, user, type) ==
  {i \in 1..Len(manifest) :
     /\ user # "none" => manifest[i].user_id = user
     /\ type # "none" => manifest[i].media_type = type}

cmd_refresh_start ==
  /\ rf.pc = "start"
  /\ \E manifest \in (IF rf.manifest_exists THEN RefreshManifests ELSE {<<>>}) :
       /\ rf' = RfOnStart(rf, manifest)
       /\ obs' = IF rf'.made_dir
                   THEN [obs EXCEPT !.loaded = Len(manifest),
                                    !.matches = Cardinality(Matching(manifest, rf.user, rf.type))]
                   ELSE obs
  /\ UNCHANGED <<dl, rq, fs, sy>>

\* lines 514-538: one message, up to the call of make_request_with_retry
RfOnMessage(f, all_exist) ==
  LET msg_files == f.messages[f.mi].files IN
  IF all_exist /\ ~f.force
    THEN [f EXCEPT !.stats.skipped = @ + Len(msg_files), !.mi = @ + 1]
  ELSE IF f.dry_run
    THEN [f EXCEPT !.mi = @ + 1]
  ELSE [f EXCEPT !.pc = "request"]

cmd_refresh_message ==
  /\ rf.pc = "message" /\ rf.mi <= Len(rf.messages)
  /\ LET msg_files == rf.messages[rf.mi].files
         all_exist == \A i \in 1..Len(msg_files) : Exists(fs, RefreshDest(msg_files[i]))
     IN /\ rf' = RfOnMessage(rf, all_exist)
        /\ rq' = IF rf'.pc = "request" THEN RqCall(MAX_RETRY_ATTEMPTS) ELSE rq
        /\ obs' = [obs EXCEPT !.api = IF rf'.pc = "request" THEN @ + 1 ELSE @]
  /\ UNCHANGED <<dl, fs, sy>>

\* lines 539-578: the answer of the API, or its exception
RfOnResponse(f, r) ==
  LET msg_files == f.messages[f.mi].files IN
  IF r.pc = "exc" \/ ~r.data.found
    THEN [f EXCEPT !.stats.failed = @ + Len(msg_files), !.mi = @ + 1,
                   !.pc = "message"]
    ELSE [f EXCEPT !.fresh_urls = r.data.keys, !.fj = 1, !.pc = "file"]

cmd_refresh_response ==
  /\ rf.pc = "request" /\ rq.pc \in {"ret", "exc"}
  /\ rf' = RfOnResponse(rf, rq)
  /\ rq' = RqIdle
  /\ UNCHANGED <<dl, fs, sy, obs>>

\* "key in filename" for the names of the model
KeyIn(key, filename) == key = filename \/ (key = "a" /\ filename = "ab")

\* lines 590-597: exact key first, then the first key contained in the name
RfFreshKeys(fresh_urls, filename) ==
  IF filename \in fresh_urls THEN {filename}
  ELSE {k \in fresh_urls : KeyIn(k, filename)}

\* lines 581-612: one file of the message, up to the first download call
RfOnFile(f, exists, keys) ==
  IF exists /\ ~f.force
    THEN [f EXCEPT !.stats.skipped = @ + 1, !.fj = @ + 1]
  ELSE IF keys = {}
    THEN [f EXCEPT !.stats.failed = @ + 1, !.fj = @ + 1]
  ELSE [f EXCEPT !.pc = "download"]

cmd_refresh_file ==
  /\ rf.pc = "file" /\ rf.fj <= Len(rf.messages[rf.mi].files)
  /\ LET file == rf.messages[rf.mi].files[rf.fj]
         dest == RefreshDest(file)
         keys == RfFreshKeys(rf.fresh_urls, file.filename)
     IN /\ rf' = RfOnFile(rf, Exists(fs, dest), keys)
        /\ IF rf'.pc = "download"
             THEN /\ \E k \in keys : dl' = DlCall(FreshUrl(k), dest, MAX_RETRY_ATTEMPTS)
                  /\ obs' = [obs EXCEPT !.dlCalls = @ + 1]
             ELSE UNCHANGED <<dl, obs>>
  /\ UNCHANGED <<rq, fs, sy>>

\* lines 612-624: after download_file_with_retry(fresh_url, dest)
cmd_refresh_downloaded ==
  /\ rf.pc = "download" /\ dl.pc = "ret"
  /\ LET file == rf.messages[rf.mi].files[rf.fj] IN
     IF ~dl.ret /\ file.proxy_url
       THEN /\ rf' = [rf EXCEPT !.pc = "proxy"]
            /\ dl' = DlCall(ProxyUrl, RefreshDest(file), MAX_RETRY_ATTEMPTS)
            /\ obs' = [obs EXCEPT !.dlCalls = @ + 1, !.dlFalse = @ + 1]
       ELSE /\ rf' = IF dl.ret
                       THEN [rf EXCEPT !.stats.downloaded = @ + 1, !.fj = @ + 1, !.pc = "file"]
                       ELSE [rf EXCEPT !.stats.failed = @ + 1, !.fj = @ + 1, !.pc = "file"]
            /\ dl' = DlIdle
            /\ obs' = [obs EXCEPT !.dlFalse = IF dl.ret THEN @ ELSE @ + 1]
  /\ UNCHANGED <<rq, fs, sy>>

\* lines 615-621: after download_file_with_retry(f["proxy_url"], dest)
cmd_refresh_proxy_downloaded ==
  /\ rf.pc = "proxy" /\ dl.pc = "ret"
  /\ rf' = IF dl.ret
             THEN [rf EXCEPT !.stats.downloaded = @ + 1, !.fj = @ + 1, !.pc = "file"]
             ELSE [rf EXCEPT !.stats.failed = @ + 1, !.fj = @ + 1, !.pc = "file"]
  /\ dl' = DlIdle
  /\ obs' = [obs EXCEPT !.dlFalse = IF dl.ret THEN @ ELSE @ + 1]
  /\ UNCHANGED <<rq, fs, sy>>

\* lines 612, 615: an exception of download_file_with_retry passes through
cmd_refresh_download_raised ==
  /\ rf.pc \in {"download", "proxy"} /\ dl.pc = "exc"
  /\ rf' = [rf EXCEPT !.pc = "exc"]
  /\ dl' = DlIdle
  /\ UNCHANGED <<rq, fs, sy, obs>>

\* line 581: the files of the message are done (fresh_urls and the file
\* index are set anew before their next use)
cmd_refresh_next_message ==
  /\ rf.pc = "file" /\ rf.fj > Len(rf.messages[rf.mi].files)
  /\ rf' = [rf EXCEPT !.mi = @ + 1, !.fresh_urls = {}, !.fj = 0, !.pc = "message"]
  /\ UNCHANGED <<dl, rq, fs, sy, obs>>

\* line 647
RfExitCode(stats) == IF stats.failed = 0 THEN 0 ELSE 1

\* lines 626-647: summary and return
cmd_refresh_return ==
  /\ rf.pc = "message" /\ rf.mi > Len(rf.messages)
  /\ rf' = [rf EXCEPT !.ret = RfExitCode(rf.stats), !.pc = "done"]
  /\ UNCHANGED <<dl, rq, fs, sy, obs>>

cmd_refresh ==
  \/ cmd_refresh_start
  \/ cmd_refresh_message
  \/ cmd_refresh_response
  \/ cmd_refresh_file
  \/ cmd_refresh_downloaded
  \/ cmd_refresh_proxy_downloaded
  \/ cmd_refresh_download_raised
  \/ cmd_refresh_next_message
  \/ cmd_refresh_return

(***************************************************************************)
(* Specifications                                                          *)
(***************************************************************************)
\* the files found before a run: some of the OldNames, in the given dirs
OldNames == {"a"}
FilesBefore(dirs) ==
  {f \in [Paths -> {"absent", "old"}] :
     \A p \in Paths : (p[1] \notin dirs \/ p[2] \notin OldNames) => f[p] = "absent"}

\* one call of one of the two retrying helpers
InitRetry ==
  /\ fs \in FilesBefore({OutputDir})
  /\ obs = ObsInit(fs)
  /\ sy = SyIdle
  /\ rf = RfIdle
  /\ \E m \in 0..MaxRetriesArg :
       \/ dl = DlCall("u1", <<OutputDir, "a">>, m) /\ rq = RqIdle
       \/ rq = RqCall(m) /\ dl = DlIdle

NextRetry == download_file_with_retry \/ make_request_with_retry

SpecRetry == InitRetry /\ [][NextRetry]_vars

FairSpecRetry == SpecRetry /\ WF_vars(NextRetry)

\* one run of "media-sync.py sync"
InitSync ==
  /\ fs \in FilesBefore({SOURCES[i] : i \in 1..Len(SOURCES)})
  /\ obs = ObsInit(fs)
  /\ dl = DlIdle
  /\ rq = RqIdle
  /\ rf = RfIdle
  /\ \E dry_run \in BOOLEAN, min_free \in 1..MaxMinFree :
       sy = SyCall(dry_run, min_free)

NextSync == cmd_sync \/ download_file_with_retry

SpecSync == InitSync /\ [][NextSync]_vars

\* one run of "media-sync.py refresh"
InitRefresh ==
  /\ fs \in FilesBefore({OutputDir})
  /\ obs = ObsInit(fs)
  /\ dl = DlIdle
  /\ rq = RqIdle
  /\ sy = SyIdle
  /\ \E token \in {"unset", "", "tok"}, manifest_exists \in BOOLEAN,
        user \in {"none", "u1"}, type \in {"none", "attachment"},
        dry_run \in BOOLEAN, force \in BOOLEAN :
       rf = RfCall(token, manifest_exists, user, type, dry_run, force)

NextRefresh == cmd_refresh \/ make_request_with_retry \/ download_file_with_retry

SpecRefresh == InitRefresh /\ [][NextRefresh]_vars

(***************************************************************************)
(* Properties of the retrying helpers (SpecRetry)                          *)
(***************************************************************************)
Retryable == {"429", "server", "net"}

\* min(Retry-After + 1, cap), with 5 for an absent header and the cap for an
\* unparsable one
ExpectedRateLimitWait(hdr) ==
  IF hdr.kind = "absent" THEN 6
  ELSE IF hdr.kind = "bad" THEN MAX_RETRY_AFTER_SECONDS
  ELSE IF hdr.val + 1 < MAX_RETRY_AFTER_SECONDS THEN hdr.val + 1
  ELSE MAX_RETRY_AFTER_SECONDS

\* C6: after a 429 both helpers hand time.sleep the delay
\* min(Retry-After + 1, MAX_RETRY_AFTER_SECONDS) (Retry-After = 5 when the
\* header is absent, the full cap when it does not parse), which never
\* exceeds MAX_RETRY_AFTER_SECONDS; the next attempt follows only a sleep
\* that was carried out.
C6_RateLimitWait ==
  /\ dl.last = "429" =>
       /\ dl.delay = ExpectedRateLimitWait(dl.hdr)
       /\ dl.delay <= MAX_RETRY_AFTER_SECONDS
       /\ dl.pc = "run" => dl.delay >= 0
  /\ rq.last = "429" =>
       /\ rq.delay = ExpectedRateLimitWait(rq.hdr)
       /\ rq.delay <= MAX_RETRY_AFTER_SECONDS
       /\ rq.pc = "run" => rq.delay >= 0

\* a 429 whose Retry-After is far above the cap was answered by a 60 s wait
C6_Witness ==
  /\ dl.last = "429" /\ dl.hdr = Num(3600)
  /\ dl.delay = MAX_RETRY_AFTER_SECONDS /\ dl.pc = "run"

\* C7 as claimed: the backoff after a server or network error never exceeds
\* MAX_RETRY_AFTER_SECONDS
C7_BackoffCappedAt60 ==
  /\ dl.last \in {"server", "net"} => dl.delay <= MAX_RETRY_AFTER_SECONDS
  /\ rq.last \in {"server", "net"} => rq.delay <= MAX_RETRY_AFTER_SECONDS

\* C7 amended: the backoff after the failure of attempt number a (from 0) is
\* 2^a + BASE_BACKOFF_SECONDS; its only ceiling is the one the attempt count
\* gives, 2^(max_retries - 1) + BASE_BACKOFF_SECONDS
C7_BackoffExponential ==
  /\ dl.last \in {"server", "net"} =>
       /\ dl.delay = 2 ^ (dl.sent - 1) + BASE_BACKOFF_SECONDS
       /\ dl.delay <= 2 ^ (dl.max_retries - 1) + BASE_BACKOFF_SECONDS
  /\ rq.last \in {"server", "net"} =>
       /\ rq.delay = 2 ^ (rq.sent - 1) + BASE_BACKOFF_SECONDS
       /\ rq.delay <= 2 ^ (rq.max_retries - 1) + BASE_BACKOFF_SECONDS

\* the eighth attempt of a download failed on the network: a wait of 129 s
C7_Witness ==
  /\ dl.last = "net" /\ dl.sent = MAX_RETRY_ATTEMPTS
  /\ dl.delay = 129 /\ dl.delay > MAX_RETRY_AFTER_SECONDS

\* C8: make_request_with_retry sends at most max_retries requests, returns
\* at the first successful response, and when all max_retries attempts ended
\* in a retryable failure it raises the error of the last attempt
C8_RequestContract ==
  /\ rq.sent <= rq.max_retries
  /\ rq.last = "ok" => rq.pc = "ret"
  /\ rq.pc = "ret" => rq.last = "ok"
  /\ (rq.sent = rq.max_retries /\ rq.last \in Retryable /\ rq.pc # "run") =>
       /\ rq.pc = "exc"
       /\ rq.raised = rq.last_error
       /\ rq.raised.n = rq.max_retries
       /\ rq.raised.type \in {"http", "net"}

\* C9: download_file_with_retry returns True iff an attempt succeeded, False
\* at once on a 4xx other than 429 and 408, False after max_retries
\* retryable failures, and never lets an HTTP or network error out as an
\* exception
C9_DownloadContract ==
  /\ dl.sent <= dl.max_retries
  /\ dl.pc # "exc"
  /\ dl.pc = "ret" => (dl.ret <=> dl.last = "ok")
  /\ dl.last = "fatal" => dl.pc = "ret" /\ ~dl.ret
  /\ (dl.pc = "ret" /\ dl.last \in Retryable) => dl.sent = dl.max_retries

\* both helpers end: with a return or with an exception
RetryTerminates == <>(dl.pc \in {"idle", "ret", "exc"} /\ rq.pc \in {"idle", "ret", "exc"})

(***************************************************************************)
(* Properties of cmd_sync (SpecSync)                                       *)
(***************************************************************************)
SyEntryReached == sy.pc = "entry" /\ sy.fi <= Len(sy.files)
SyDest == SyncDest(SOURCES[sy.si], sy.files[sy.fi])

\* C1: without --dry-run, a reached entry whose destination exists causes no
\* download call and adds exactly one to the skipped counter; one whose
\* destination is missing and whose disk check passes causes exactly one
\* call of download_file_with_retry, for its url and destination; and a
\* file that exists is never rewritten, except the empty file an earlier
\* attempt of the running call itself left behind.
C1_SkipExistingDownloadMissing ==
  [][/\ (SyEntryReached /\ ~sy.dry_run /\ Exists(fs, SyDest)) =>
          /\ obs'.dlCalls = obs.dlCalls /\ dl' = DlIdle /\ fs' = fs
          /\ sy'.stats.skipped = sy.stats.skipped + 1
          /\ sy'.stats.downloaded = sy.stats.downloaded
          /\ sy'.stats.failed = sy.stats.failed
          /\ sy'.fi = sy.fi + 1
     /\ (SyEntryReached /\ ~sy.dry_run /\ ~Exists(fs, SyDest)
           /\ obs'.check.free >= sy.min_free * MB) =>
          /\ obs'.dlCalls = obs.dlCalls + 1
          /\ dl' = DlCall(sy.files[sy.fi].url, SyDest, MAX_RETRY_ATTEMPTS)
          /\ sy'.pc = "download" /\ sy'.fi = sy.fi
          /\ sy'.stats.skipped = sy.stats.skipped
     /\ sy.pc = "download" =>
          /\ obs'.dlCalls = obs.dlCalls
          /\ sy'.pc = "entry" => sy'.fi = sy.fi + 1
     /\ \A p \in Paths :
          (Exists(fs, p) /\ fs'[p] # fs[p]) =>
             /\ dl.pc = "run" /\ dl.dest = p /\ fs[p] = "empty"
             /\ obs.fs0[p] = "absent"
    ]_vars

\* an entry whose file was there before the run has been skipped, the file
\* is as it was, and another entry of the run has been downloaded
C1_Witness ==
  /\ sy.pc = "done" /\ ~sy.dry_run
  /\ sy.stats.skipped = 1 /\ sy.stats.downloaded = 1 /\ obs.dlCalls = 1
  /\ fs[<<"elizaos", "a">>] = "old" /\ fs[<<"elizaos", "ab">>] = "u2"

\* C2: cmd_sync returns 2 exactly when a per-download disk check failed,
\* returns 0 only if no download failed and no disk stop occurred, and
\* returns 1 for download failures and for too little disk space at the
\* start; a run with a failed download never returns 0.
C2_ExitCodes ==
  sy.pc = "done" =>
    /\ sy.ret \in {0, 1, 2}
    /\ sy.ret = 2 <=> obs.low
    /\ sy.ret = 0 => (obs.dlFalse = 0 /\ ~obs.low)
    /\ obs.dlFalse > 0 => sy.ret # 0
    /\ sy.ret = 1 <=>
         \/ ~obs.low /\ obs.dlFalse > 0
         \/ ~sy.dry_run /\ obs.fetches = 0 /\ obs.free0 < sy.min_free * MB

\* a download failed, a later disk check stopped the run: exit code 2
C2_Witness ==
  sy.pc = "done" /\ sy.ret = 2 /\ obs.dlFalse = 1 /\ obs.low

\* C3: without --dry-run, when the first disk check finds less than
\* min_free MB free, cmd_sync returns 1 and has fetched no manifest,
\* attempted no download and left every file as it was.
C3_Preflight ==
  (sy.pc \notin {"idle", "start"} /\ ~sy.dry_run /\ obs.free0 < sy.min_free * MB) =>
    /\ sy.pc = "done" /\ sy.ret = 1
    /\ obs.fetches = 0 /\ obs.dlCalls = 0 /\ dl = DlIdle
    /\ fs = obs.fs0

\* the run ended at the preflight although a file was there to keep
C3_Witness ==
  /\ sy.pc = "done" /\ ~sy.dry_run /\ obs.free0 = sy.min_free * MB - 1
  /\ sy.ret = 1 /\ fs[<<"elizaos", "a">>] = "old"

\* C4: while a download runs, the last disk check was made for the entry
\* being downloaded and found free >= min_free MB; once a per-download check
\* found less, there is no further download call, no further request of a
\* download, no further manifest fetch and no file change, and the run
\* returns 2.
C4_DiskCheckBeforeDownload ==
  /\ [](dl.pc = "run" =>
          /\ sy.pc = "download"
          /\ obs.check.si = sy.si /\ obs.check.fi = sy.fi
          /\ obs.check.free >= sy.min_free * MB)
  /\ [](obs.low => (dl = DlIdle /\ sy.pc \in {"summary", "done"}))
  /\ []((obs.low /\ sy.pc = "done") => sy.ret = 2)
  /\ [][obs.low =>
          /\ obs'.dlCalls = obs.dlCalls /\ obs'.fetches = obs.fetches
          /\ fs' = fs /\ dl' = dl
          /\ sy'.pc = "done" /\ sy'.ret = 2]_vars

\* the second source's first download was stopped by its disk check after
\* the first source's file had been downloaded
C4_Witness ==
  /\ sy.pc = "done" /\ obs.low /\ sy.ret = 2
  /\ obs.check.si = 2 /\ obs.dlCalls = 1 /\ sy.stats.downloaded = 1

\* C5: with --dry-run cmd_sync never calls download_file_with_retry and
\* changes no file, whatever the disk space; files_to_download counts
\* exactly the reached entries whose destination does not exist; it
\* returns 0.
C5_DryRun ==
  sy.dry_run =>
    /\ obs.dlCalls = 0 /\ dl = DlIdle /\ fs = obs.fs0
    /\ sy.files_to_download = obs.absentReached
    /\ sy.pc = "done" => sy.ret = 0
    /\ ~sy.stats.disk_stopped /\ ~obs.low

\* a dry run on a disk below the minimum counted two missing files and one
\* existing file
C5_Witness ==
  /\ sy.dry_run /\ sy.pc = "done" /\ obs.free0 < sy.min_free * MB
  /\ sy.files_to_download = 2 /\ sy.stats.skipped = 1 /\ sy.ret = 0

(***************************************************************************)
(* Properties of cmd_refresh (SpecRefresh)                                 *)
(***************************************************************************)
\* C10: cmd_refresh returns 1 with no API request, no download, no file
\* changed and no directory made when DISCORD_TOKEN is unset or empty or
\* the manifest path does not exist; it returns 0 with no request and no
\* download when no manifest entry passes the --user / --type filters.
C10_RefreshEarlyReturns ==
  /\ (rf.pc \notin {"idle", "start"}
        /\ (rf.token \in {"unset", ""} \/ ~rf.manifest_exists)) =>
       /\ rf.pc = "done" /\ rf.ret = 1
       /\ obs.api = 0 /\ obs.dlCalls = 0 /\ rq = RqIdle /\ dl = DlIdle
       /\ fs = obs.fs0 /\ ~rf.made_dir
  /\ (rf.pc \notin {"idle", "start"} /\ obs.matches = 0) =>
       /\ rf.pc = "done" /\ rf.ret = 0
       /\ obs.api = 0 /\ obs.dlCalls = 0 /\ rq = RqIdle /\ dl = DlIdle
       /\ fs = obs.fs0

\* a manifest of two entries, none of them of the user asked for
C10_Witness ==
  /\ rf.pc = "done" /\ rf.ret = 0 /\ rf.token = "tok" /\ rf.manifest_exists
  /\ rf.user = "u1" /\ obs.loaded = 2 /\ obs.matches = 0 /\ obs.api = 0

(***************************************************************************)
(* The advisory rate-limit headers (SpecRetry)                             *)
(***************************************************************************)
\* C11: a successful response of make_request_with_retry is returned at
\* once, with its data and with no further request.  When it carries
\* X-RateLimit-Remaining <= 0 and a parsable X-RateLimit-Reset-After, the
\* helper first hands time.sleep the delay min(Reset-After + 1, 60), which is
\* slept unless it is negative; when a header is missing or unparsable, or
\* Remaining > 0, there is no wait.
C11_PreemptiveWait ==
  rq.last = "ok" =>
    /\ rq.pc = "ret" /\ rq.attempt = rq.sent - 1 /\ rq.data \in Bodies
    /\ IF rq.remaining.kind = "num" /\ rq.remaining.val <= 0
          /\ rq.reset_after.kind = "num"
         THEN /\ rq.wait.asked
              /\ rq.wait.delay = (IF rq.reset_after.val + 1 < MAX_RETRY_AFTER_SECONDS
                                    THEN rq.reset_after.val + 1
                                    ELSE MAX_RETRY_AFTER_SECONDS)
              /\ rq.wait.delay <= MAX_RETRY_AFTER_SECONDS
              /\ rq.wait.slept <=> rq.wait.delay >= 0
         ELSE ~rq.wait.asked /\ ~rq.wait.slept /\ rq.wait.delay = 0

\* the third request succeeded with Remaining 0 and Reset-After 100: a wait
\* of 60 s, then the return of the message found in that response
C11_Witness ==
  /\ rq.pc = "ret" /\ rq.sent = 3 /\ rq.attempt = 2
  /\ rq.remaining = Num(0) /\ rq.reset_after = Num(100)
  /\ rq.wait.slept /\ rq.wait.delay = MAX_RETRY_AFTER_SECONDS
  /\ rq.data.found /\ rq.data.keys = {"a"}

(***************************************************************************)
(* Deduplication by unique_name (SpecSync)                                 *)
(***************************************************************************)
\* C12: in a cmd_sync without --dry-run a download is called for the path
\* made of the entry's source and unique_name, whatever its url; an entry
\* whose path holds a body downloaded earlier in the run is skipped, whatever
\* its url; and a successful download never lands on a path that already
\* holds a file with a body, so no path is downloaded successfully twice.
C12_DedupByUniqueName ==
  [][/\ (sy.pc = "entry" /\ sy'.pc = "download") =>
          /\ dl'.dest = <<SOURCES[sy.si], sy.files[sy.fi].unique_name>>
          /\ dl'.url = sy.files[sy.fi].url
          /\ fs[dl'.dest] = "absent"
     /\ (SyEntryReached /\ ~sy.dry_run
           /\ fs[<<SOURCES[sy.si], sy.files[sy.fi].unique_name>>] \in Urls) =>
          /\ sy'.stats.skipped = sy.stats.skipped + 1
          /\ sy'.stats.downloaded = sy.stats.downloaded
          /\ dl' = DlIdle /\ fs' = fs /\ obs'.dlCalls = obs.dlCalls
     /\ (dl.pc = "run" /\ dl'.pc = "ret" /\ dl'.ret) =>
          /\ fs[dl.dest] \in {"absent", "empty"}
          /\ fs'[dl.dest] = dl.url
          /\ \A p \in Paths \ {dl.dest} : fs'[p] = fs[p]
     /\ \A p \in Paths : fs[p] \in Urls => fs'[p] = fs[p]
    ]_vars

\* two entries of hyperfy share the unique_name "ab": the first was
\* downloaded from u1, the second, of url u2, was skipped
C12_Witness ==
  /\ sy.pc = "done" /\ ~sy.dry_run /\ sy.ret = 0
  /\ sy.files = <<[url |-> "u1", unique_name |-> "ab"],
                  [url |-> "u2", unique_name |-> "ab"]>>
  /\ fs[<<"hyperfy", "ab">>] = "u1" /\ obs.fs0[<<"hyperfy", "ab">>] = "absent"
  /\ sy.stats.downloaded = 1 /\ sy.stats.skipped = 1 /\ obs.dlCalls = 1

====
